---------------------------- MODULE Spec2Model ----------------------------
(***************************************************************************)
(* github-stats-server/app.py: the line-count engine (is_text_file,        *)
(* count_lines_in_file, analyze_repository), the retention sweep           *)
(* (clean_old_repos) and the job layer (get_repository_stats with its      *)
(* background process_stats thread, get_stats_status, stats_page) over     *)
(* the process-wide stats_cache and the shared directory REPOS_DIR.        *)
(*                                                                         *)
(* Time is the value of time.time() in whole seconds.  File and directory  *)
(* names are sequences of one-character strings, file contents are         *)
(* sequences of byte values.  Message literals of the source that are not  *)
(* ASCII are written in English.                                           *)
(***************************************************************************)
EXTENDS Integers, Sequences, FiniteSets, TLC

VARIABLES
    now,          \* time.time(), in seconds
    stats_cache,  \* the dict stats_cache: cache_key -> [stats, timestamp]
    reposExists,  \* os.path.exists(REPOS_DIR)
    disk,         \* the entries of REPOS_DIR: name -> [ctime, isdir, tree, by],
                  \* tree the set of files below the entry, by the thread that
                  \* made it (0: none of this run of the server)
    threads,      \* the process_stats threads: id -> locals and position
    nthreads,     \* how many threads have been started
    resp          \* what the HTTP handler of the last step returned

vars == <<now, stats_cache, reposExists, disk, threads, nthreads, resp>>

(***************************************************************************)
(* Bounds of the model.                                                    *)
(***************************************************************************)
\* Pipelines started in one run of the server.
MaxThreads == 2
\* The clock is read at three instants: 0, FirstTick, FirstTick + SecondTick.
FirstTick == 1800
SecondTick == 1801
\* Files in a tree handed to the walk.
MaxFiles == 3

(***************************************************************************)
(* Program constants.                                                      *)
(***************************************************************************)
FreshSeconds == 1800
MaxAgeSeconds == 3600
SampleSize == 8192
MaxFileSize == 10485760

(***************************************************************************)
(* Strings.                                                                *)
(***************************************************************************)
RECURSIVE Str(_)
Str(cs) == IF cs = <<>> THEN "" ELSE cs[1] \o Str(Tail(cs))

UpperChars == <<"A", "B", "C", "D", "E", "F", "G", "H", "I", "J", "K", "L", "M",
                "N", "O", "P", "Q", "R", "S", "T", "U", "V", "W", "X", "Y", "Z">>
LowerChars == <<"a", "b", "c", "d", "e", "f", "g", "h", "i", "j", "k", "l", "m",
                "n", "o", "p", "q", "r", "s", "t", "u", "v", "w", "x", "y", "z">>

LowerChar(c) ==
    IF \E i \in 1..26 : UpperChars[i] = c
    THEN LowerChars[CHOOSE i \in 1..26 : UpperChars[i] = c]
    ELSE c

Lower(cs) == [i \in 1..Len(cs) |-> LowerChar(cs[i])]

StartsWith(s, p) == Len(s) >= Len(p) /\ SubSeq(s, 1, Len(p)) = p

\* os.path.splitext on a file name: the extension starts at the last dot that
\* is not among the leading dots of the name.
LeadingDots(cs) ==
    IF \A i \in 1..Len(cs) : cs[i] = "." THEN Len(cs)
    ELSE (CHOOSE i \in 1..Len(cs) : cs[i] # "." /\ \A j \in 1..(i - 1) : cs[j] = ".") - 1

SplitExt(cs) ==
    LET dots == {i \in (LeadingDots(cs) + 1)..Len(cs) : cs[i] = "."}
    IN  IF dots = {} THEN <<>>
        ELSE LET d == CHOOSE i \in dots : \A j \in dots : j <= i
             IN  SubSeq(cs, d, Len(cs))

\* os.path.join of the components of a relative path.
RECURSIVE JoinPath(_)
JoinPath(parts) ==
    IF parts = <<>> THEN ""
    ELSE IF Len(parts) = 1 THEN Str(parts[1])
    ELSE Str(parts[1]) \o "/" \o JoinPath(Tail(parts))


(***************************************************************************)
(* Content classification: is_text_file and _is_reasonable_text.           *)
(* A file is [dir, name, size, content, statable, readable]: dir is the    *)
(* sequence of directory names from the repository root, content the first *)
(* bytes of the file (all of them when size = Len(content)), statable      *)
(* whether os.path.getsize succeeds, readable whether open() succeeds.     *)
(* The decoding step is modelled by latin-1, which decodes every chunk:    *)
(* what it accepts is_text_file accepts, and for an ASCII chunk every      *)
(* listed encoding gives the same text.                                    *)
(***************************************************************************)
BINARY_EXTENSIONS ==
    {".exe", ".dll", ".so", ".dylib", ".a", ".lib", ".obj", ".o",
     ".jpg", ".jpeg", ".png", ".gif", ".bmp", ".tiff", ".ico", ".webp",
     ".mp3", ".wav", ".flac", ".aac", ".ogg", ".mp4", ".avi", ".mkv", ".mov",
     ".pdf", ".doc", ".docx", ".xls", ".xlsx", ".ppt", ".pptx",
     ".zip", ".tar", ".gz", ".bz2", ".xz", ".7z", ".rar",
     ".bin", ".dat", ".db", ".sqlite", ".sqlite3",
     ".ttf", ".otf", ".woff", ".woff2", ".eot",
     ".pyc", ".pyo", ".class", ".jar", ".war"}

BINARY_SIGNATURES ==
    {<<137, 80, 78, 71>>,    \* PNG
     <<255, 216, 255>>,      \* JPEG
     <<71, 73, 70, 56>>,     \* GIF8
     <<0, 0, 1, 0>>,         \* ICO
     <<66, 77>>,             \* BM
     <<80, 75, 3, 4>>,       \* PK 03 04
     <<31, 139>>,            \* GZIP
     <<127, 69, 76, 70>>,    \* ELF
     <<77, 90>>,             \* MZ
     <<202, 254, 186, 190>>, \* Java class
     <<37, 80, 68, 70>>}     \* %PDF

Min(a, b) == IF a < b THEN a ELSE b

CountIn(seq, S) == Cardinality({i \in 1..Len(seq) : seq[i] \in S})

\* str.isprintable() or one of \t \n \r \f \v, for a byte decoded as one
\* character (every listed encoding agrees on the bytes below 128; above
\* them this is latin-1, the encoding that never fails to decode).
PrintableByte(b) ==
    \/ b \in 9..13
    \/ b \in 32..126
    \/ b \in 161..255 /\ b # 173

_is_reasonable_text(text) ==
    /\ text # <<>>
    /\ CountIn(text, {b \in 0..255 : PrintableByte(b)}) * 100 >= 85 * Len(text)

\* is_text_file without the loop of lines 118-120.
is_text_file_NoSignatures(f) ==
    LET chunk == SubSeq(f.content, 1, Min(Min(SampleSize, f.size), Len(f.content)))
        null_count == CountIn(chunk, {0})
        control_chars == CountIn(chunk, (0..31) \ {9, 10, 13})
    IN  IF ~f.statable THEN FALSE
        ELSE IF f.size = 0 THEN FALSE
        ELSE IF f.size > MaxFileSize THEN FALSE
        ELSE IF Str(Lower(SplitExt(f.name))) \in BINARY_EXTENSIONS THEN FALSE
        ELSE IF ~f.readable THEN FALSE
        ELSE IF null_count > 0 /\ null_count * 100 > Len(chunk) THEN FALSE
        ELSE IF Len(chunk) > 0 /\ control_chars * 100 > 2 * Len(chunk) THEN FALSE
        ELSE _is_reasonable_text(chunk)

\* Lines 95-162.  An exception of the try block (getsize, open) ends in the
\* except clause, which returns False.
is_text_file(f) ==
    LET chunk == SubSeq(f.content, 1, Min(Min(SampleSize, f.size), Len(f.content)))
        null_count == CountIn(chunk, {0})
        control_chars == CountIn(chunk, (0..31) \ {9, 10, 13})
    IN  IF ~f.statable THEN FALSE
        ELSE IF f.size = 0 THEN FALSE
        ELSE IF f.size > MaxFileSize THEN FALSE
        ELSE IF Str(Lower(SplitExt(f.name))) \in BINARY_EXTENSIONS THEN FALSE
        ELSE IF ~f.readable THEN FALSE
        ELSE IF \E sig \in BINARY_SIGNATURES : StartsWith(chunk, sig) THEN FALSE
        ELSE IF null_count > 0 /\ null_count * 100 > Len(chunk) THEN FALSE
        ELSE IF Len(chunk) > 0 /\ control_chars * 100 > 2 * Len(chunk) THEN FALSE
        ELSE _is_reasonable_text(chunk)

(***************************************************************************)
(* count_lines_in_file: len(f.readlines()) of the file opened as utf-8     *)
(* text with errors='ignore', where \n, \r and \r\n each end a line and a  *)
(* last line without a terminator counts; 0 when no open() succeeds.       *)
(***************************************************************************)
Continuation(b) == b \in 128..191

\* The code points of bytes decoded as utf-8 with errors='ignore': a byte
\* that starts no well-formed sequence is dropped.
RECURSIVE Utf8Ignore(_)
Utf8Ignore(b) ==
    IF b = <<>> THEN <<>>
    ELSE IF b[1] < 128 THEN <<b[1]>> \o Utf8Ignore(Tail(b))
    ELSE IF /\ b[1] \in 194..223 /\ Len(b) >= 2 /\ Continuation(b[2])
         THEN <<(b[1] - 192) * 64 + (b[2] - 128)>> \o Utf8Ignore(SubSeq(b, 3, Len(b)))
    ELSE IF /\ b[1] \in 224..239 /\ Len(b) >= 3
            /\ Continuation(b[2]) /\ Continuation(b[3])
            /\ b[1] = 224 => b[2] >= 160
            /\ b[1] = 237 => b[2] <= 159
         THEN <<(b[1] - 224) * 4096 + (b[2] - 128) * 64 + (b[3] - 128)>>
              \o Utf8Ignore(SubSeq(b, 4, Len(b)))
    ELSE IF /\ b[1] \in 240..244 /\ Len(b) >= 4
            /\ Continuation(b[2]) /\ Continuation(b[3]) /\ Continuation(b[4])
            /\ b[1] = 240 => b[2] >= 144
            /\ b[1] = 244 => b[2] <= 143
         THEN <<(b[1] - 240) * 262144 + (b[2] - 128) * 4096 + (b[3] - 128) * 64
                + (b[4] - 128)>> \o Utf8Ignore(SubSeq(b, 5, Len(b)))
    ELSE Utf8Ignore(Tail(b))

LineEnds(c) ==
    {i \in 1..Len(c) : \/ c[i] = 10
                       \/ c[i] = 13 /\ (i = Len(c) \/ c[i + 1] # 10)}

count_lines_in_file(f) ==
    LET text == Utf8Ignore(f.content)
    IN  IF ~f.readable THEN 0
        ELSE Cardinality(LineEnds(text))
             + (IF Len(text) > 0 /\ Len(text) \notin LineEnds(text) THEN 1 ELSE 0)

(***************************************************************************)
(* Dictionaries.                                                           *)
(***************************************************************************)
\* d[key] = value
Put(cache, key, value) ==
    [k \in DOMAIN cache \cup {key} |-> IF k = key THEN value ELSE cache[k]]

Remove(d, name) == [n \in DOMAIN d \ {name} |-> d[n]]

\* {}
EmptyDict == [k \in {} |-> 0]

(***************************************************************************)
(* analyze_repository over a tree, a set of files.                         *)
(***************************************************************************)
SkipDirs == {"node_modules", "__pycache__", "build", "dist", "target"}

\* Lines 211-216: what os.walk does not descend into.
PrunedDir(d) == Str(d) = ".git" \/ StartsWith(d, <<".">>) \/ Str(d) \in SkipDirs

\* The walk pruning the directories of the repository root only.
VisitedTopLevelOnly(tree) ==
    {f \in tree : /\ f.dir # <<>> => ~PrunedDir(f.dir[1])
                  /\ ~StartsWith(f.name, <<".">>)}

\* The files os.walk reaches and line 223 keeps.
Visited(tree) ==
    {f \in tree : /\ \A i \in 1..Len(f.dir) : ~PrunedDir(f.dir[i])
                  /\ ~StartsWith(f.name, <<".">>)}

\* The key of file_stats without the directories.
relative_path_BaseName(f) == Str(f.name)

\* Line 220.
relative_path(f) == JoinPath(Append(f.dir, f.name))

\* Lines 234-235.
file_type(f) == IF SplitExt(f.name) # <<>> THEN Str(SplitExt(f.name)) ELSE "no extension"

\* Line 248 taking the first directory of the path.
folder_TopLevel(f) == IF f.dir # <<>> THEN Str(f.dir[1]) ELSE "."

\* Line 248.
folder(f) == IF f.dir # <<>> THEN JoinPath(f.dir) ELSE "."

\* Lines 201-207.
NoStats ==
    [total_lines |-> 0, total_files |-> 0, file_stats |-> EmptyDict,
     folder_stats |-> EmptyDict, file_type_stats |-> EmptyDict]

\* Lines 230-252: a file of lines lines added to stats.
Record(stats, f, lines) ==
    LET path == relative_path(f)
        type == file_type(f)
        dir == folder(f)
        typeBefore == IF type \in DOMAIN stats.file_type_stats
                      THEN stats.file_type_stats[type] ELSE 0
        dirBefore == IF dir \in DOMAIN stats.folder_stats
                     THEN stats.folder_stats[dir] ELSE [lines |-> 0, files |-> 0]
    IN  [total_lines |-> stats.total_lines + lines,
         total_files |-> stats.total_files + 1,
         file_stats |->
            Put(stats.file_stats, path,
                [lines |-> lines, file_type |-> type,
                 size |-> IF f.statable THEN f.size ELSE 0]),
         file_type_stats |-> Put(stats.file_type_stats, type, typeBefore + lines),
         folder_stats |->
            Put(stats.folder_stats, dir,
                [lines |-> dirBefore.lines + lines, files |-> dirBefore.files + 1])]

\* Lines 227-229 without the test of line 229.
AddFileNoLinesTest(stats, f) ==
    IF is_text_file(f) THEN Record(stats, f, count_lines_in_file(f)) ELSE stats

\* Lines 227-229 without the tests of lines 227 and 229.
AddFileUnguarded(stats, f) == Record(stats, f, count_lines_in_file(f))

\* Lines 227-229: the body of the loop for a file line 223 kept.
AddFile(stats, f) ==
    IF is_text_file(f)
    THEN LET lines == count_lines_in_file(f)
         IN  IF lines > 0 THEN Record(stats, f, lines) ELSE stats
    ELSE stats

\* Lines 209-252: the loop over the files, in some order.
RECURSIVE WalkFiles(_, _)
WalkFiles(files, stats) ==
    IF files = {} THEN stats
    ELSE LET f == CHOOSE x \in files : TRUE
         IN  WalkFiles(files \ {f}, AddFile(stats, f))

\* Lines 255-260: the percentage as the fraction lines * 100 / total_lines.
Percentage(lines, total) == [num |-> lines * 100, den |-> total]

WithPercentages(stats) ==
    IF stats.total_lines > 0
    THEN [stats EXCEPT
            !.file_stats =
                [p \in DOMAIN @ |->
                    [lines |-> @[p].lines, file_type |-> @[p].file_type,
                     size |-> @[p].size,
                     percentage |-> Percentage(@[p].lines, stats.total_lines)]],
            !.folder_stats =
                [d \in DOMAIN @ |->
                    [lines |-> @[d].lines, files |-> @[d].files,
                     percentage |-> Percentage(@[d].lines, stats.total_lines)]]]
    ELSE stats

analyze_repository(tree) == WithPercentages(WalkFiles(Visited(tree), NoStats))

(***************************************************************************)
(* The trees the fetch can materialize.  Tree 0 is what a clone leaves     *)
(* behind when it is cut short: no working files.                          *)
(***************************************************************************)
File(dir, name, content) ==
    [dir |-> dir, name |-> name, size |-> Len(content), content |-> content,
     statable |-> TRUE, readable |-> TRUE]

\* "x\ny\n"
XY == <<120, 10, 121, 10>>

Trees ==
    <<  \* src/a.py, src/b.png, .git/config
        {File(<<<<"s", "r", "c">>>>, <<"a", ".", "p", "y">>, XY),
         File(<<<<"s", "r", "c">>>>, <<"b", ".", "p", "n", "g">>, <<137, 80, 78, 71, 10>>),
         File(<<<<".", "g", "i", "t">>>>, <<"c", "o", "n", "f", "i", "g">>, XY)},
        \* README, m.PY, an empty file
        {File(<<>>, <<"R", "E", "A", "D", "M", "E">>, <<104, 105>>),
         File(<<>>, <<"m", ".", "P", "Y">>, XY \o XY),
         File(<<>>, <<"e", ".", "t", "x", "t">>, <<>>)} >>

NTrees == Len(Trees)

TreeOf(i) == IF i = 0 THEN {} ELSE Trees[i]

(***************************************************************************)
(* The files of the trees handed to the walk on its own.                   *)
(***************************************************************************)
\* "x\n"
X == <<120, 10>>

\* The PNG signature followed by "aaaaaaaaaaa\n".
PngThenText == <<137, 80, 78, 71, 97, 97, 97, 97, 97, 97, 97, 97, 97, 97, 97, 10>>

Pool ==
    {File(<<<<"s", "r", "c">>>>, <<"a", ".", "p", "y">>, XY),
     File(<<<<"s", "r", "c">>, <<"l", "i", "b">>>>, <<"a", ".", "p", "y">>, X),
     File(<<>>, <<"b", ".", "P", "Y">>, XY),
     File(<<>>, <<"R", "E", "A", "D", "M", "E">>, <<104, 105>>),
     \* a file of no bytes
     File(<<>>, <<"e", ".", "t", "x", "t">>, <<>>),
     \* a signature under a text extension, a text under a binary extension
     File(<<>>, <<"p", ".", "t", "x", "t">>, PngThenText),
     File(<<>>, <<"c", ".", "P", "N", "G">>, X),
     \* one byte more than 10 MiB
     [File(<<>>, <<"b", "i", "g", ".", "t", "x", "t">>, X) EXCEPT !.size = MaxFileSize + 1],
     \* what the walk leaves out
     File(<<<<".", "g", "i", "t">>>>, <<"c", "o", "n", "f", "i", "g">>, XY),
     File(<<<<"s", "r", "c">>, <<"n", "o", "d", "e", "_", "m", "o", "d", "u", "l", "e", "s">>>>,
          <<"m", ".", "j", "s">>, X),
     File(<<<<".", "g", "i", "t", "h", "u", "b">>>>, <<"w", ".", "y", "m", "l">>, X),
     File(<<>>, <<".", "e", "n", "v">>, X),
     \* a directory whose name only starts like a left-out one
     File(<<<<"b", "u", "i", "l", "d", "s">>>>, <<"k", ".", "c">>, X),
     \* open() fails; getsize and open() fail
     [File(<<>>, <<"u", ".", "t", "x", "t">>, X) EXCEPT !.readable = FALSE],
     [File(<<>>, <<"s", ".", "c">>, X) EXCEPT !.statable = FALSE, !.readable = FALSE],
     \* latin-1 text that is no utf-8: one byte, E9
     File(<<>>, <<"l", ".", "t", "x", "t">>, <<233>>)}

WalkTrees == {tree \in SUBSET Pool : Cardinality(tree) <= MaxFiles}

(***************************************************************************)
(* The job layer.                                                          *)
(***************************************************************************)
\* The (owner, repo) pairs the requests name.  The server accepts any two
\* non-empty strings.
Identities == {<<"a", "x">>, <<"b", "y_z">>}

\* Request bodies: [hasUrl, owner, repo].
Requests ==
    {[hasUrl |-> TRUE, owner |-> id[1], repo |-> id[2]] : id \in Identities}
    \cup {[hasUrl |-> FALSE, owner |-> "a", repo |-> "x"],
          [hasUrl |-> TRUE, owner |-> "", repo |-> "x"]}

\* Lines 283, 356, 383.
cache_key(owner, repo) == owner \o "/" \o repo

\* Line 303: the entry of REPOS_DIR a pipeline clones into.
repo_dir_name(owner, repo, t) == owner \o "_" \o repo \o "_" \o ToString(t)

Keys == {cache_key(id[1], id[2]) : id \in Identities}

\* Messages of clone_repository (lines 84, 86, 88) and of a failed walk.
CloneStderr == "fatal: could not read from remote repository"
CloneFailedMessage(stderr) == "clone failed: " \o stderr
CloneTimeoutMessage == "clone timed out"
CloneExceptionMessage == "clone exception: git not found"
WalkErrorMessage == "[Errno 2] No such file or directory"

NoLocals ==
    [pc |-> "idle", owner |-> "", repo |-> "", repo_dir |-> "", current_time |-> 0,
     items |-> {}, item |-> "", message |-> "", stats |-> [none |-> TRUE],
     fetched |-> "no", walked |-> "no", rmFailed |-> FALSE, prior |-> "none",
     priorAge |-> 0, sweepFailed |-> FALSE]

ThreadIds == 1..MaxThreads

\* resp after a step that is not an HTTP handler's.
NoResponse == [op |-> "none", key |-> "", code |-> 0, body |-> [none |-> TRUE]]

Executing(t) == threads[t].pc \notin {"idle", "done", "dead"}

Init ==
    /\ now = 0
    /\ stats_cache = EmptyDict
    /\ reposExists = FALSE
    /\ disk = EmptyDict
    /\ threads = [t \in ThreadIds |-> NoLocals]
    /\ nthreads = 0
    /\ resp = NoResponse

(***************************************************************************)
(* get_repository_stats, POST /api/stats (lines 269-351).                  *)
(***************************************************************************)
\* Line 290 with the comparison turned round.
IsFreshInverted(entry, t) == t - entry.timestamp > FreshSeconds

\* Line 290 with the operands of the subtraction exchanged.
IsFreshSwapped(entry, t) == entry.timestamp - t < FreshSeconds

\* Line 290.
IsFresh(entry, t) == t - entry.timestamp < FreshSeconds

\* Lines 291-295.  A dict lookup of a missing key raises KeyError, which no
\* handler catches: the request ends as an internal server error.
CachedResponse(key, stats) ==
    IF {"total_lines", "total_files"} \subseteq DOMAIN stats
    THEN [op |-> "request", key |-> key, code |-> 200,
          body |-> [totalLines |-> stats.total_lines,
                    totalFiles |-> stats.total_files, cached |-> TRUE]]
    ELSE [op |-> "request", key |-> key, code |-> 500,
          body |-> [unhandled |-> "KeyError: 'total_lines'"]]

\* Lines 346-351.
ProcessingResponse(key) ==
    [op |-> "request", key |-> key, code |-> 200,
     body |-> [totalLines |-> 0, totalFiles |-> 0, processing |-> TRUE,
               message |-> "analyzing the repository, please wait"]]

\* Lines 286-295: whether the request is answered from the cache.
ServedFromCache(key) ==
    key \in DOMAIN stats_cache /\ IsFresh(stats_cache[key], now)

\* What the cache holds for a key: "absent", "error" or "result".
Holds(cache, key) ==
    IF key \notin DOMAIN cache THEN "absent"
    ELSE IF "error" \in DOMAIN cache[key].stats THEN "error" ELSE "result"

\* Lines 341-343: threading.Thread(target=process_stats).start().  The
\* thread's record notes in prior and priorAge what the cache held for the
\* key, and how old it was, when the thread was started.
StartThread(owner, repo) ==
    LET key == cache_key(owner, repo)
    IN  /\ nthreads < MaxThreads
        /\ nthreads' = nthreads + 1
        /\ threads' = [threads EXCEPT ![nthreads + 1] =
              [NoLocals EXCEPT
                  !.pc = "ensure", !.owner = owner, !.repo = repo,
                  !.prior = Holds(stats_cache, key),
                  !.priorAge = IF key \in DOMAIN stats_cache
                               THEN now - stats_cache[key].timestamp ELSE 0]]

get_repository_stats(data) ==
    LET key == cache_key(data.owner, data.repo)
    IN  /\ UNCHANGED <<now, stats_cache, reposExists, disk>>
        /\ IF ~data.hasUrl
           THEN /\ resp' = [op |-> "request", key |-> "", code |-> 400,
                            body |-> [error |-> "missing repository URL"]]
                /\ UNCHANGED <<threads, nthreads>>
           ELSE IF data.owner = "" \/ data.repo = ""
           THEN /\ resp' = [op |-> "request", key |-> "", code |-> 400,
                            body |-> [error |-> "missing repository information"]]
                /\ UNCHANGED <<threads, nthreads>>
           ELSE IF ServedFromCache(key)
           THEN /\ resp' = CachedResponse(key, stats_cache[key].stats)
                /\ UNCHANGED <<threads, nthreads>>
           ELSE /\ StartThread(data.owner, data.repo)
                /\ resp' = ProcessingResponse(key)

(***************************************************************************)
(* get_stats_status, GET /api/stats/status/<owner>/<repo> (lines 353-372). *)
(***************************************************************************)
\* get_stats_status without the test of line 363.
StatusResponseNoErrorTest(cache, key) ==
    IF key \in DOMAIN cache /\ "error" \notin DOMAIN cache[key].stats
    THEN [op |-> "status", key |-> key, code |-> 200,
          body |-> [totalLines |-> cache[key].stats.total_lines,
                    totalFiles |-> cache[key].stats.total_files,
                    ready |-> TRUE]]
    ELSE [op |-> "status", key |-> key, code |-> 200,
          body |-> [ready |-> FALSE, message |-> "statistics in progress"]]

StatusResponse(cache, key) ==
    IF key \in DOMAIN cache
    THEN IF "error" \in DOMAIN cache[key].stats
         THEN [op |-> "status", key |-> key, code |-> 500,
               body |-> [error |-> cache[key].stats.error]]
         ELSE [op |-> "status", key |-> key, code |-> 200,
               body |-> [totalLines |-> cache[key].stats.total_lines,
                         totalFiles |-> cache[key].stats.total_files,
                         ready |-> TRUE]]
    ELSE [op |-> "status", key |-> key, code |-> 200,
          body |-> [ready |-> FALSE, message |-> "statistics in progress"]]

get_stats_status(owner, repo) ==
    /\ resp' = StatusResponse(stats_cache, cache_key(owner, repo))
    /\ UNCHANGED <<now, stats_cache, reposExists, disk, threads, nthreads>>

(***************************************************************************)
(* stats_page, GET /stats (lines 374-397).                                 *)
(***************************************************************************)
PageResponse(cache, key) ==
    IF key \notin DOMAIN cache
    THEN [op |-> "page", key |-> key, code |-> 200, body |-> [template |-> "LOADING"]]
    ELSE IF "error" \in DOMAIN cache[key].stats
    THEN [op |-> "page", key |-> key, code |-> 200,
          body |-> [template |-> "ERROR", error |-> cache[key].stats.error]]
    ELSE [op |-> "page", key |-> key, code |-> 200,
          body |-> [template |-> "STATS", stats |-> cache[key].stats]]

stats_page(owner, repo) ==
    /\ IF owner = "" \/ repo = ""
       THEN resp' = [op |-> "page", key |-> "", code |-> 400,
                     body |-> [error |-> "missing repository parameters"]]
       ELSE resp' = PageResponse(stats_cache, cache_key(owner, repo))
    /\ UNCHANGED <<now, stats_cache, reposExists, disk, threads, nthreads>>

(***************************************************************************)
(* process_stats (lines 298-338), one action per step of the thread.  The  *)
(* steps of one thread interleave with the handlers and with the steps of  *)
(* the other threads.                                                      *)
(***************************************************************************)
SetLocals(t, r) == threads' = [threads EXCEPT ![t] = r]

\* What is left of a thread once it has ended: its locals are gone; the
\* record keeps how it went (fetched, walked, rmFailed).
Ended(l, pc) ==
    [l EXCEPT !.pc = pc, !.owner = "", !.repo = "", !.repo_dir = "",
              !.current_time = 0, !.items = {}, !.item = "",
              !.message = "", !.stats = [none |-> TRUE], !.prior = "none",
              !.priorAge = 0, !.sweepFailed = FALSE]

\* ensure_repos_dir, line 54: os.path.exists(REPOS_DIR)
EnsureCheck(t) ==
    /\ threads[t].pc = "ensure"
    /\ SetLocals(t, [threads[t] EXCEPT !.pc = IF reposExists THEN "clean" ELSE "mkdirs"])
    /\ resp' = NoResponse
    /\ UNCHANGED <<now, stats_cache, reposExists, disk, nthreads>>

\* ensure_repos_dir, line 55: os.makedirs(REPOS_DIR) raises FileExistsError
\* when the directory has appeared since line 54; nothing catches it and the
\* thread ends.
EnsureMake(t) ==
    /\ threads[t].pc = "mkdirs"
    /\ IF reposExists
       THEN /\ SetLocals(t, Ended(threads[t], "dead"))
            /\ UNCHANGED reposExists
       ELSE /\ reposExists' = TRUE
            /\ SetLocals(t, [threads[t] EXCEPT !.pc = "clean"])
    /\ resp' = NoResponse
    /\ UNCHANGED <<now, stats_cache, disk, nthreads>>

\* clean_old_repos, lines 59-63: the time and the listing are taken once.
\* current_time, items and item are locals of clean_old_repos: they are
\* gone when it returns, which it does at once when the listing is empty.
CleanList(t) ==
    /\ threads[t].pc = "clean"
    /\ IF ~reposExists
       THEN SetLocals(t, [threads[t] EXCEPT !.pc = "mkpath"])
       ELSE IF DOMAIN disk = {}
       THEN SetLocals(t, [threads[t] EXCEPT !.pc = "mkpath"])
       ELSE SetLocals(t, [threads[t] EXCEPT
                !.current_time = now, !.items = DOMAIN disk, !.pc = "sweep"])
    /\ resp' = NoResponse
    /\ UNCHANGED <<now, stats_cache, reposExists, disk, nthreads>>

AfterItem(l, item) ==
    IF l.items \ {item} = {}
    THEN [l EXCEPT !.items = {}, !.item = "", !.current_time = 0, !.pc = "mkpath"]
    ELSE [l EXCEPT !.items = l.items \ {item}, !.item = "", !.pc = "sweep"]

\* clean_old_repos, lines 63-65: the next listed item; os.path.isdir is
\* False for a plain file and for an item that is gone.
CleanIsDir(t) ==
    /\ threads[t].pc = "sweep"
    /\ \E item \in threads[t].items :
          IF item \in DOMAIN disk /\ disk[item].isdir
          THEN SetLocals(t, [threads[t] EXCEPT !.item = item, !.pc = "ctime"])
          ELSE SetLocals(t, AfterItem(threads[t], item))
    /\ resp' = NoResponse
    /\ UNCHANGED <<now, stats_cache, reposExists, disk, nthreads>>

\* Line 67.
TooOld(current_time, ctime) == current_time - ctime > MaxAgeSeconds

\* clean_old_repos, lines 67-72: os.path.getctime raises FileNotFoundError
\* for an item removed since line 65 (outside the try: the thread ends);
\* shutil.rmtree of an old item removes it or fails, which is printed and
\* which the thread's record notes in sweepFailed until the sweep is over.
CleanItem(t) ==
    LET l == threads[t]
    IN  /\ l.pc = "ctime"
        /\ resp' = NoResponse
        /\ UNCHANGED <<now, stats_cache, reposExists, nthreads>>
        /\ IF l.item \notin DOMAIN disk
           THEN /\ SetLocals(t, Ended(l, "dead"))
                /\ UNCHANGED disk
           ELSE IF TooOld(l.current_time, disk[l.item].ctime)
           THEN \/ /\ disk' = Remove(disk, l.item)
                   /\ SetLocals(t, AfterItem(l, l.item))
                \/ /\ UNCHANGED disk
                   /\ SetLocals(t, [AfterItem(l, l.item) EXCEPT !.sweepFailed = TRUE])
           ELSE /\ UNCHANGED disk
                /\ SetLocals(t, AfterItem(l, l.item))

\* Line 303.
MakePath(t) ==
    /\ threads[t].pc = "mkpath"
    /\ SetLocals(t, [threads[t] EXCEPT
            !.repo_dir = repo_dir_name(threads[t].owner, threads[t].repo, now),
            !.sweepFailed = FALSE, !.pc = "clone"])
    /\ resp' = NoResponse
    /\ UNCHANGED <<now, stats_cache, reposExists, disk, nthreads>>

\* clone_repository (lines 74-88), called at line 307.  git clone refuses a
\* destination that exists and is not empty; otherwise it materializes a
\* tree, or fails and leaves nothing, or is killed at the timeout and
\* leaves what it had created.
CloneOk(t) ==
    LET l == threads[t]
    IN  /\ l.pc = "clone"
        /\ l.repo_dir \notin DOMAIN disk
        /\ \E i \in 1..NTrees :
              disk' = Put(disk, l.repo_dir, [ctime |-> now, isdir |-> TRUE, tree |-> TreeOf(i), by |-> t])
        /\ SetLocals(t, [l EXCEPT !.pc = "analyze", !.fetched = "ok"])
        /\ resp' = NoResponse
        /\ UNCHANGED <<now, stats_cache, reposExists, nthreads>>

CloneFails(t) ==
    LET l == threads[t]
    IN  /\ l.pc = "clone"
        /\ \/ /\ SetLocals(t, [l EXCEPT !.pc = "fail_write", !.fetched = "failed",
                                        !.message = CloneFailedMessage(CloneStderr)])
              /\ UNCHANGED disk
           \/ /\ l.repo_dir \notin DOMAIN disk
              /\ SetLocals(t, [l EXCEPT !.pc = "fail_write", !.fetched = "failed",
                                        !.message = CloneTimeoutMessage])
              /\ disk' = Put(disk, l.repo_dir,
                              [ctime |-> now, isdir |-> TRUE, tree |-> TreeOf(0), by |-> t])
           \/ /\ SetLocals(t, [l EXCEPT !.pc = "fail_write", !.fetched = "failed",
                                        !.message = CloneExceptionMessage])
              /\ UNCHANGED disk
        /\ resp' = NoResponse
        /\ UNCHANGED <<now, stats_cache, reposExists, nthreads>>

\* Lines 310-313 storing a fixed text instead of the message.
FailureEntryFixedText(message, t) == [stats |-> [error |-> "clone failed"], timestamp |-> t]

\* Lines 310-313 and 328-331.
FailureEntry(message, t) == [stats |-> [error |-> message], timestamp |-> t]

\* Lines 321-324 storing the totals before the rest of the result.
ResultEntryPartial(stats, t) ==
    [stats |-> [total_lines |-> stats.total_lines, total_files |-> stats.total_files],
     timestamp |-> t]

\* Lines 321-324.
ResultEntry(stats, t) == [stats |-> stats, timestamp |-> t]

\* Lines 308-314.  After its write a thread reads message and stats no
\* more: the record drops them there.
WriteFetchFailure(t) ==
    LET l == threads[t]
    IN  /\ l.pc = "fail_write"
        /\ stats_cache' = Put(stats_cache, cache_key(l.owner, l.repo),
                              FailureEntry(l.message, now))
        /\ SetLocals(t, [l EXCEPT !.pc = "finally", !.message = ""])
        /\ resp' = NoResponse
        /\ UNCHANGED <<now, reposExists, disk, nthreads>>

\* Line 317: the walk of whatever is at repo_dir now (os.walk of a missing
\* directory visits nothing), or an exception out of it.
Analyze(t) ==
    LET l == threads[t]
        tree == IF l.repo_dir \in DOMAIN disk THEN disk[l.repo_dir].tree ELSE {}
    IN  /\ l.pc = "analyze"
        /\ \/ SetLocals(t, [l EXCEPT !.pc = "ok_write", !.walked = "ok",
                                     !.stats = analyze_repository(tree)])
           \/ SetLocals(t, [l EXCEPT !.pc = "exc_write", !.walked = "raised",
                                     !.message = WalkErrorMessage])
        /\ resp' = NoResponse
        /\ UNCHANGED <<now, stats_cache, reposExists, disk, nthreads>>

\* Lines 320-324.
WriteResult(t) ==
    LET l == threads[t]
    IN  /\ l.pc = "ok_write"
        /\ stats_cache' = Put(stats_cache, cache_key(l.owner, l.repo),
                              ResultEntry(l.stats, now))
        /\ SetLocals(t, [l EXCEPT !.pc = "finally", !.stats = [none |-> TRUE]])
        /\ resp' = NoResponse
        /\ UNCHANGED <<now, reposExists, disk, nthreads>>

\* Lines 326-331.
WriteWalkFailure(t) ==
    LET l == threads[t]
    IN  /\ l.pc = "exc_write"
        /\ stats_cache' = Put(stats_cache, cache_key(l.owner, l.repo),
                              FailureEntry(l.message, now))
        /\ SetLocals(t, [l EXCEPT !.pc = "finally", !.message = ""])
        /\ resp' = NoResponse
        /\ UNCHANGED <<now, reposExists, disk, nthreads>>

\* The removal as the last statement of the try block instead of a finally
\* clause: skipped by the return of line 314 and by an exception.
CleansUpAfterWalkOnly(l) == l.walked = "ok"

\* Line 332: the removal is a finally clause, reached however the try block
\* was left.
CleansUp(l) == l.fetched \in {"ok", "failed"}

\* Lines 332-338: the finally clause; a failure of rmtree is swallowed.
Finally(t) ==
    LET l == threads[t]
    IN  /\ l.pc = "finally"
        /\ resp' = NoResponse
        /\ UNCHANGED <<now, stats_cache, reposExists, nthreads>>
        /\ IF CleansUp(l) /\ l.repo_dir \in DOMAIN disk
           THEN \/ /\ disk' = Remove(disk, l.repo_dir)
                   /\ SetLocals(t, Ended(l, "done"))
                \/ /\ UNCHANGED disk
                   /\ SetLocals(t, [Ended(l, "done") EXCEPT !.rmFailed = TRUE])
           ELSE /\ UNCHANGED disk
                /\ SetLocals(t, Ended(l, "done"))

\* time.time() moving on.
Tick ==
    /\ now < FirstTick + SecondTick
    /\ now' = IF now < FirstTick THEN FirstTick ELSE FirstTick + SecondTick
    /\ resp' = NoResponse
    /\ UNCHANGED <<stats_cache, reposExists, disk, threads, nthreads>>

Next ==
    \/ \E data \in Requests : get_repository_stats(data)
    \/ \E id \in Identities : get_stats_status(id[1], id[2])
    \/ \E id \in Identities \cup {<<"", "x">>} : stats_page(id[1], id[2])
    \/ \E t \in ThreadIds :
          \/ EnsureCheck(t)
          \/ EnsureMake(t)
          \/ CleanList(t)
          \/ CleanIsDir(t)
          \/ CleanItem(t)
          \/ MakePath(t)
          \/ CloneOk(t)
          \/ CloneFails(t)
          \/ WriteFetchFailure(t)
          \/ Analyze(t)
          \/ WriteResult(t)
          \/ WriteWalkFailure(t)
          \/ Finally(t)
    \/ Tick

Spec == Init /\ [][Next]_vars

(***************************************************************************)
(* The walk on its own: a pipeline whose clone has just materialized some  *)
(* tree, from line 317 to its end, and the reads of the cache.             *)
(***************************************************************************)
InitWalk ==
    LET dir == repo_dir_name("a", "x", 0)
    IN  /\ now = 0
        /\ stats_cache = EmptyDict
        /\ reposExists = TRUE
        /\ \E tree \in WalkTrees :
              disk = Put(EmptyDict, dir,
                         [ctime |-> 0, isdir |-> TRUE, tree |-> tree, by |-> 1])
        /\ threads = [t \in ThreadIds |->
              IF t = 1
              THEN [NoLocals EXCEPT !.pc = "analyze", !.owner = "a", !.repo = "x",
                                    !.repo_dir = dir, !.fetched = "ok"]
              ELSE NoLocals]
        /\ nthreads = 1
        /\ resp = NoResponse

NextWalk ==
    \/ \E id \in Identities : get_stats_status(id[1], id[2])
    \/ \E id \in Identities : stats_page(id[1], id[2])
    \/ \E t \in ThreadIds :
          \/ Analyze(t)
          \/ WriteResult(t)
          \/ WriteWalkFailure(t)
          \/ Finally(t)

WalkSpec == InitWalk /\ [][NextWalk]_vars

(***************************************************************************)
(* The sweep over what an earlier run of the server, or another user of    *)
(* the temporary directory, has left in REPOS_DIR: the server starts at    *)
(* the last instant of the clock with an empty cache and some of the       *)
(* entries of LeftOver on disk.                                            *)
(***************************************************************************)
LastInstant == FirstTick + SecondTick

LeftOver ==
    LET entry(ctime, isdir, tree) ==
            [ctime |-> ctime, isdir |-> isdir, tree |-> tree, by |-> 0]
    IN  \* a clone older than MaxAgeSeconds by one second
        Put(Put(Put(EmptyDict,
            "a_x_old", entry(LastInstant - MaxAgeSeconds - 1, TRUE, TreeOf(1))),
        \* a clone exactly MaxAgeSeconds old
            "b_y_z_old", entry(LastInstant - MaxAgeSeconds, TRUE, TreeOf(0))),
        \* a plain file as old as the first clone
            "notes.txt", entry(LastInstant - MaxAgeSeconds - 1, FALSE, {}))

InitSweep ==
    /\ now = LastInstant
    /\ stats_cache = EmptyDict
    /\ reposExists = TRUE
    /\ \E names \in SUBSET DOMAIN LeftOver : disk = [n \in names |-> LeftOver[n]]
    /\ threads = [t \in ThreadIds |-> NoLocals]
    /\ nthreads = 0
    /\ resp = NoResponse

NextSweep ==
    \/ \E data \in Requests : get_repository_stats(data)
    \/ \E t \in ThreadIds :
          \/ EnsureCheck(t)
          \/ CleanList(t)
          \/ CleanIsDir(t)
          \/ CleanItem(t)
          \/ MakePath(t)
          \/ CloneOk(t)
          \/ CloneFails(t)
          \/ WriteFetchFailure(t)
          \/ Analyze(t)
          \/ WriteResult(t)
          \/ WriteWalkFailure(t)
          \/ Finally(t)

SweepSpec == InitSweep /\ [][NextSweep]_vars

(***************************************************************************)
(* Properties.                                                             *)
(***************************************************************************)
KeyOf(l) == cache_key(l.owner, l.repo)

\* A step that starts a pipeline for key.
Starts(key) ==
    /\ nthreads' = nthreads + 1
    /\ KeyOf(threads'[nthreads']) = key

\* A step in which get_repository_stats answers for key.
Answers(key) == resp'.op = "request" /\ resp'.key = key

\* The answers as the callers tell them apart.
IsAccepted(r) == "processing" \in DOMAIN r.body /\ r.body.processing
IsNotReady(r) == "ready" \in DOMAIN r.body /\ ~r.body.ready

\* C1: at most one pipeline is executing for an identity at any instant.
OnePipelinePerIdentity ==
    \A t1, t2 \in ThreadIds :
        /\ Executing(t1) /\ Executing(t2)
        /\ threads[t1].owner = threads[t2].owner
        /\ threads[t1].repo = threads[t2].repo
        => t1 = t2

\* C2: a request for an identity that has no fresh cache entry and a pipeline
\* still executing is answered "processing" and starts no second pipeline.
RequestsCoalesce ==
    [][\A key \in Keys :
          /\ Answers(key)
          /\ ~ServedFromCache(key)
          /\ \E t \in ThreadIds : Executing(t) /\ KeyOf(threads[t]) = key
          => /\ IsAccepted(resp')
             /\ UNCHANGED <<threads, nthreads>>]_vars

\* C3: a request that finds a result younger than 1800 s returns its totals
\* flagged cached, starts no pipeline and leaves the cache as it is.
FreshResultServed ==
    [][\A key \in Keys :
          /\ Answers(key)
          /\ Holds(stats_cache, key) = "result"
          /\ now - stats_cache[key].timestamp < 1800
          => /\ resp'.code = 200
             /\ resp'.body = [totalLines |-> stats_cache[key].stats.total_lines,
                              totalFiles |-> stats_cache[key].stats.total_files,
                              cached |-> TRUE]
             /\ UNCHANGED <<stats_cache, threads, nthreads>>]_vars

FreshResultServedWitness ==
    /\ resp.op = "request"
    /\ resp.body = [totalLines |-> 5, totalFiles |-> 2, cached |-> TRUE]
    /\ Holds(stats_cache, resp.key) = "result"
    /\ now - stats_cache[resp.key].timestamp < 1800

\* C4: a request that finds a failure younger than 1800 s starts no pipeline,
\* leaves the entry as it is and returns the failure as a cached outcome,
\* not as an unhandled error.
FreshFailureServed ==
    [][\A key \in Keys :
          /\ Answers(key)
          /\ Holds(stats_cache, key) = "error"
          /\ now - stats_cache[key].timestamp < 1800
          => /\ "unhandled" \notin DOMAIN resp'.body
             /\ resp'.code # 500
             /\ UNCHANGED <<stats_cache, threads, nthreads>>]_vars

\* C5: every read treats an entry that is 1800 s old or older as absent:
\* the request does not return it as cached, the status is "not ready",
\* the page is the loading page.
ExpiredEntryReadAsAbsent ==
    [][\A key \in Keys :
          /\ resp'.op \in {"request", "status", "page"}
          /\ resp'.key = key
          /\ key \in DOMAIN stats_cache
          /\ now - stats_cache[key].timestamp >= 1800
          => /\ resp'.op = "request" => "cached" \notin DOMAIN resp'.body
             /\ resp'.op = "status" => IsNotReady(resp')
             /\ resp'.op = "page" => resp'.body = [template |-> "LOADING"]]_vars

\* C6: the status read changes nothing and starts nothing; it returns "not
\* ready" without an entry, the reason of a failure entry, the totals of a
\* result entry.
StatusIsPureRead ==
    [][\A key \in Keys :
          resp'.op = "status" /\ resp'.key = key
          => /\ UNCHANGED <<now, stats_cache, reposExists, disk, threads, nthreads>>
             /\ Holds(stats_cache, key) = "absent" => IsNotReady(resp')
             /\ Holds(stats_cache, key) = "error"
                   => resp'.body = [error |-> stats_cache[key].stats.error]
             /\ Holds(stats_cache, key) = "result"
                   => resp'.body = [totalLines |-> stats_cache[key].stats.total_lines,
                                    totalFiles |-> stats_cache[key].stats.total_files,
                                    ready |-> TRUE]]_vars

StatusIsPureReadWitness ==
    /\ resp.op = "status"
    /\ resp.body = [totalLines |-> 2, totalFiles |-> 1, ready |-> TRUE]
    /\ \E t \in ThreadIds : Executing(t)

\* A step in which thread t stores the result of its walk.
StoresResult(t) == threads[t].pc = "ok_write" /\ threads'[t].pc = "finally"

\* A step in which thread t stores the failure of its fetch.
StoresFetchFailure(t) == threads[t].pc = "fail_write" /\ threads'[t].pc = "finally"

\* C7: a request that finds a failure older than 1800 s starts a pipeline
\* from its first step; a pipeline reaches the walk only after a fetch that
\* succeeded, and when the walk succeeds too its write leaves a result
\* under the key, which the status read then reports as ready.
RetryAfterStaleFailure ==
    /\ [][\A key \in Keys :
             /\ Answers(key)
             /\ Holds(stats_cache, key) = "error"
             /\ now - stats_cache[key].timestamp > 1800
             => /\ Starts(key)
                /\ threads'[nthreads'].pc = "ensure"
                /\ IsAccepted(resp')]_vars
    /\ [][\A t \in ThreadIds :
             StoresResult(t)
             => /\ threads[t].fetched = "ok" /\ threads[t].walked = "ok"
                /\ Holds(stats_cache', KeyOf(threads[t])) = "result"
                /\ StatusResponse(stats_cache', KeyOf(threads[t])).body.ready]_vars

RetryAfterStaleFailureWitness ==
    \E t \in ThreadIds :
        /\ threads[t].pc = "finally"
        /\ threads[t].prior = "error"
        /\ threads[t].priorAge > 1800
        /\ threads[t].walked = "ok"
        /\ Holds(stats_cache, KeyOf(threads[t])) = "result"

\* C8: a pipeline whose fetch failed stores a failure whose reason is the
\* fetcher's message, which the status read then returns, and never walks.
FetchFailureStored ==
    /\ [][\A t \in ThreadIds :
             StoresFetchFailure(t)
             => /\ stats_cache'[KeyOf(threads[t])].stats = [error |-> threads[t].message]
                /\ StatusResponse(stats_cache', KeyOf(threads[t])).body
                      = [error |-> threads[t].message]]_vars
    /\ [][\A t \in ThreadIds :
             threads[t].fetched = "failed"
             => /\ threads'[t].walked = "no"
                /\ threads'[t].pc \in {"fail_write", "finally", "done"}]_vars

FetchFailureStoredWitness ==
    \E t \in ThreadIds :
        /\ threads[t].pc = "finally"
        /\ threads[t].fetched = "failed"
        /\ threads[t].repo_dir \in DOMAIN disk
        /\ StatusResponse(stats_cache, KeyOf(threads[t])).body = [error |-> CloneTimeoutMessage]

\* C9: once a pipeline has ended, however it ended, the tree it created is
\* no longer on disk, unless its removal failed.
TreeGoneAfterPipeline ==
    \A t \in ThreadIds :
        threads[t].pc \in {"done", "dead"} /\ ~threads[t].rmFailed
        => \A name \in DOMAIN disk : disk[name].by # t

TreeGoneAfterPipelineWitness ==
    \E t1, t2 \in ThreadIds :
        /\ threads[t1].pc = "done" /\ threads[t1].fetched = "failed"
        /\ threads[t2].pc = "done" /\ threads[t2].walked = "raised"
        /\ ~threads[t1].rmFailed /\ ~threads[t2].rmFailed

\* C10: two pipelines executing at the same time clone into different
\* entries of REPOS_DIR.
DisjointRepoDirs ==
    \A t1, t2 \in ThreadIds :
        /\ t1 # t2
        /\ Executing(t1) /\ Executing(t2)
        /\ threads[t1].repo_dir # "" /\ threads[t2].repo_dir # ""
        => threads[t1].repo_dir # threads[t2].repo_dir

(***************************************************************************)
(* Properties of the walk.                                                 *)
(***************************************************************************)
\* Thread t has come back from analyze_repository with a result, and the
\* tree it walked is on disk.
Returned(t) == threads[t].pc = "ok_write" /\ threads[t].repo_dir \in DOMAIN disk

WalkedTree(t) == disk[threads[t].repo_dir].tree

\* The sum of fn[k] over the keys k of S.
RECURSIVE SumOf(_, _)
SumOf(fn, S) ==
    IF S = {} THEN 0
    ELSE LET k == CHOOSE x \in S : TRUE
         IN  fn[k] + SumOf(fn, S \ {k})

LinesOf(records) == [k \in DOMAIN records |-> records[k].lines]

FilesOf(records) == [k \in DOMAIN records |-> records[k].files]

\* What the walk is to leave out: a file below a directory named .git, or
\* whose name starts with a dot, or named like a build or dependency
\* directory, at any depth; a file whose own name starts with a dot.
Excluded(f) ==
    \/ \E i \in 1..Len(f.dir) :
          \/ Str(f.dir[i]) = ".git"
          \/ Head(f.dir[i]) = "."
          \/ Str(f.dir[i]) \in {"node_modules", "__pycache__", "build", "dist", "target"}
    \/ Head(f.name) = "."

\* The files of a tree that have a record in stats.
Recorded(tree, stats) == {f \in tree : relative_path(f) \in DOMAIN stats.file_stats}

\* total_lines is the sum of the lines of the file records and total_files
\* their number.
TotalsMatch(stats) ==
    /\ stats.total_lines = SumOf(LinesOf(stats.file_stats), DOMAIN stats.file_stats)
    /\ stats.total_files = Cardinality(DOMAIN stats.file_stats)

\* C11: in every result of the walk, as returned and as cached, total_lines
\* is the sum of the lines of the file records and total_files is the number
\* of file records.
TotalsMatchFileRecords ==
    /\ \A t \in ThreadIds : threads[t].pc = "ok_write" => TotalsMatch(threads[t].stats)
    /\ \A key \in DOMAIN stats_cache :
          Holds(stats_cache, key) = "result" => TotalsMatch(stats_cache[key].stats)

TotalsMatchFileRecordsWitness ==
    \E key \in DOMAIN stats_cache :
        /\ Holds(stats_cache, key) = "result"
        /\ DOMAIN stats_cache[key].stats.file_stats = {"src/a.py", "src/lib/a.py", "README"}
        /\ stats_cache[key].stats.total_lines = 4
        /\ stats_cache[key].stats.total_files = 3

ClassifierOrder ==
    \A t \in ThreadIds :
        Returned(t) =>
            \A f \in WalkedTree(t) :
                /\ f.size = 0 \/ f.size > 10 * 1024 * 1024 => ~is_text_file(f)
                /\ Str(Lower(SplitExt(f.name))) \in BINARY_EXTENSIONS => ~is_text_file(f)
                /\ (\E sig \in BINARY_SIGNATURES : StartsWith(f.content, sig))
                      => ~is_text_file(f)
                /\ ~is_text_file(f)
                      => relative_path(f) \notin DOMAIN threads[t].stats.file_stats

ClassifierOrderWitness ==
    \E t \in ThreadIds :
        /\ Returned(t)
        /\ \E f, g \in WalkedTree(t) :
              /\ Str(SplitExt(f.name)) = ".txt"
              /\ StartsWith(f.content, <<137, 80, 78, 71>>)
              /\ _is_reasonable_text(f.content)
              /\ Str(SplitExt(g.name)) = ".PNG" /\ g.content = X
        /\ DOMAIN threads[t].stats.file_stats = {"README"}

\* C14: a file has a record exactly when the walk does not leave it out, it
\* is text and it has more than 0 lines; a file of no bytes is not text and
\* the result is the one of the tree without it.
FileRecordIff ==
    \A t \in ThreadIds :
        Returned(t) =>
            LET tree == WalkedTree(t)
                stats == threads[t].stats
                kept == {f \in tree : /\ ~Excluded(f)
                                      /\ is_text_file(f)
                                      /\ count_lines_in_file(f) > 0}
            IN  /\ DOMAIN stats.file_stats = {relative_path(f) : f \in kept}
                /\ \A p \in DOMAIN stats.file_stats : stats.file_stats[p].lines > 0
                /\ \A f \in tree :
                      f.size = 0 => /\ ~is_text_file(f)
                                    /\ stats = analyze_repository(tree \ {f})

FileRecordIffWitness ==
    \E t \in ThreadIds :
        /\ Returned(t)
        /\ \E f, g \in WalkedTree(t) :
              /\ is_text_file(f) /\ count_lines_in_file(f) = 0 /\ ~Excluded(f)
              /\ g.size = 0 /\ g.statable /\ ~Excluded(g)
        /\ threads[t].stats.total_files = 1

\* C17: the extension aggregate is keyed by the lowercase extension, or by
\* the sentinel of the files without one, and its values sum to total_lines.
ExtensionKeyedLowercase ==
    \A t \in ThreadIds :
        Returned(t) =>
            LET stats == threads[t].stats
            IN  /\ \A f \in Recorded(WalkedTree(t), stats) :
                      LET key == IF SplitExt(f.name) = <<>> THEN "no extension"
                                 ELSE Str(Lower(SplitExt(f.name)))
                      IN  /\ key \in DOMAIN stats.file_type_stats
                          /\ stats.file_stats[relative_path(f)].file_type = key
                /\ SumOf(stats.file_type_stats, DOMAIN stats.file_type_stats)
                      = stats.total_lines

\* The parent directory of a file relative to the root, "." for the root.
Parent(f) == IF Len(f.dir) = 0 THEN "." ELSE JoinPath(f.dir)

\* C18: the folder aggregate has an entry for exactly the directories that
\* hold a recorded file directly; its lines and files are the sum of the
\* lines and the number of those records; over all folders they sum to
\* total_lines and total_files.
FolderAggregates ==
    \A t \in ThreadIds :
        Returned(t) =>
            LET stats == threads[t].stats
                recorded == Recorded(WalkedTree(t), stats)
                inside(d) == {relative_path(f) : f \in {g \in recorded : Parent(g) = d}}
            IN  /\ DOMAIN stats.folder_stats = {Parent(f) : f \in recorded}
                /\ \A d \in DOMAIN stats.folder_stats :
                      /\ stats.folder_stats[d].lines
                            = SumOf(LinesOf(stats.file_stats), inside(d))
                      /\ stats.folder_stats[d].files = Cardinality(inside(d))
                      /\ stats.folder_stats[d].files >= 1
                /\ SumOf(LinesOf(stats.folder_stats), DOMAIN stats.folder_stats)
                      = stats.total_lines
                /\ SumOf(FilesOf(stats.folder_stats), DOMAIN stats.folder_stats)
                      = stats.total_files

FolderAggregatesWitness ==
    \E t \in ThreadIds :
        /\ Returned(t)
        /\ DOMAIN threads[t].stats.folder_stats = {".", "src", "src/lib"}
        /\ threads[t].stats.folder_stats["src"] =
              [lines |-> 2, files |-> 1, percentage |-> Percentage(2, 4)]

\* C19: a file whose size cannot be taken or that cannot be opened has no
\* record; the walk comes back with a result, the one of the tree without
\* that file.
FailingFileSkipped ==
    \A t \in ThreadIds :
        Returned(t) =>
            LET tree == WalkedTree(t)
                stats == threads[t].stats
            IN  /\ "error" \notin DOMAIN stats
                /\ \A f \in tree :
                      ~f.statable \/ ~f.readable =>
                          /\ relative_path(f) \notin DOMAIN stats.file_stats
                          /\ stats = analyze_repository(tree \ {f})

FailingFileSkippedWitness ==
    \E t \in ThreadIds :
        /\ Returned(t)
        /\ \E f, g \in WalkedTree(t) :
              /\ f.statable /\ ~f.readable /\ ~Excluded(f)
              /\ ~g.statable /\ ~Excluded(g)
        /\ threads[t].stats.total_files = 1
        /\ threads[t].stats.total_lines = 2

(***************************************************************************)
(* Properties of the cache writes.                                         *)
(***************************************************************************)
\* A step in which thread t stores an entry.
Writes(t) ==
    /\ threads[t].pc \in {"fail_write", "ok_write", "exc_write"}
    /\ threads'[t].pc = "finally"

\* C15: a write for a key that has an entry stores a timestamp greater than
\* the one of that entry.
TimestampsStrictlyIncrease ==
    [][\A t \in ThreadIds :
          Writes(t) /\ KeyOf(threads[t]) \in DOMAIN stats_cache
          => stats_cache'[KeyOf(threads[t])].timestamp
                > stats_cache[KeyOf(threads[t])].timestamp]_vars

\* A result with all its parts: the totals, a record with its percentage for
\* every file and folder, the lines of every extension.
CompleteResult(stats) ==
    /\ DOMAIN stats = {"total_lines", "total_files", "file_stats", "folder_stats",
                       "file_type_stats"}
    /\ TotalsMatch(stats)
    /\ \A p \in DOMAIN stats.file_stats :
          DOMAIN stats.file_stats[p] = {"lines", "file_type", "size", "percentage"}
    /\ \A d \in DOMAIN stats.folder_stats :
          DOMAIN stats.folder_stats[d] = {"lines", "files", "percentage"}
    /\ SumOf(stats.file_type_stats, DOMAIN stats.file_type_stats) = stats.total_lines

CompleteEntry(entry) ==
    /\ DOMAIN entry = {"stats", "timestamp"}
    /\ entry.timestamp \in 0..now
    /\ DOMAIN entry.stats = {"error"} \/ CompleteResult(entry.stats)

\* C16: the cache holds for each key no entry or one complete entry; an entry
\* changes only in the one step in which a pipeline of its key stores its
\* outcome; the page and the status read return what the cache holds.
CacheEntriesComplete ==
    /\ [](\A key \in DOMAIN stats_cache :
             key \in Keys /\ CompleteEntry(stats_cache[key]))
    /\ [][\A key \in Keys :
             \/ key \notin DOMAIN stats_cache /\ key \notin DOMAIN stats_cache'
             \/ /\ key \in DOMAIN stats_cache /\ key \in DOMAIN stats_cache'
                /\ stats_cache'[key] = stats_cache[key]
             \/ \E t \in ThreadIds : Writes(t) /\ KeyOf(threads[t]) = key]_vars
    /\ [][\A key \in Keys :
             resp'.op \in {"status", "page"} /\ resp'.key = key
             => /\ resp'.op = "page" => resp' = PageResponse(stats_cache, key)
                /\ resp'.op = "status" => resp' = StatusResponse(stats_cache, key)
                /\ Holds(stats_cache, key) = "result" /\ resp'.op = "page"
                      => resp'.body.stats = stats_cache[key].stats]_vars

CacheEntriesCompleteWitness ==
    /\ resp.op = "page"
    /\ "stats" \in DOMAIN resp.body
    /\ resp.body.stats.total_files = 2
    /\ \E t \in ThreadIds :
          /\ threads[t].pc = "ok_write"
          /\ KeyOf(threads[t]) = resp.key
          /\ threads[t].stats.total_files = 1

\* C20: a pipeline ends only in the step after its write, with an entry for
\* its identity in the cache.
PipelineEndsWithEntry ==
    [][\A t \in ThreadIds :
          Executing(t) /\ threads'[t].pc \in {"done", "dead"}
          => /\ threads[t].pc = "finally"
             /\ KeyOf(threads[t]) \in DOMAIN stats_cache']_vars

(***************************************************************************)
(* Properties of the shared directory.                                     *)
(***************************************************************************)
\* A step in which thread t comes to the end of clean_old_repos.
FinishesSweep(t) ==
    /\ threads[t].pc \in {"sweep", "ctime"}
    /\ threads'[t].pc = "mkpath"

\* C21: a pipeline fetches only after its sweep; a sweep in which no removal
\* failed leaves no entry, directory or plain file, created more than 3600 s
\* before the sweep read the clock; and no step of a sweep removes or
\* changes an entry that is not older than 3600 s.
SweepRemovesOldEntries ==
    /\ [][\A t \in ThreadIds :
             /\ threads'[t].pc = "clone" /\ threads[t].pc # "clone"
                   => threads[t].pc = "mkpath"
             /\ threads'[t].pc = "mkpath" /\ threads[t].pc # "mkpath"
                   => threads[t].pc \in {"clean", "sweep", "ctime"}]_vars
    /\ [][\A t \in ThreadIds :
             FinishesSweep(t) /\ ~threads'[t].sweepFailed
             => \A name \in DOMAIN disk' :
                   threads[t].current_time - disk'[name].ctime <= 3600]_vars
    /\ [][\A t \in ThreadIds : \A name \in DOMAIN disk :
             threads[t].pc \in {"clean", "sweep", "ctime"}
             /\ threads'[t] # threads[t]
             /\ now - disk[name].ctime <= 3600
             => name \in DOMAIN disk' /\ disk'[name] = disk[name]]_vars

\* C22: while a pipeline is between its successful fetch and the end of its
\* walk, the tree it materialized stays on disk as it is.
MaterializedTreeIsolated ==
    [][\A t \in ThreadIds :
          /\ threads[t].pc = "analyze"
          /\ threads[t].repo_dir \in DOMAIN disk
          /\ disk[threads[t].repo_dir].by = t
          => /\ threads[t].repo_dir \in DOMAIN disk'
             /\ disk'[threads[t].repo_dir] = disk[threads[t].repo_dir]]_vars

=============================================================================
